---- MODULE Spec2Model ----
(***************************************************************************)
(* A model of the hash-chain crate: ChainMap (src/map.rs), LockedChainMap  *)
(* (src/imutable.rs) and ChainSet (src/set.rs).  A chain is a sequence of  *)
(* frames; frame index i of the source (0-based) is element i + 1 of the   *)
(* TLA+ sequence.  A frame of a map chain is a function from the keys it   *)
(* binds to their values; a frame of a set chain is a set of values.       *)
(* Option<T> is modelled by a sequence: None is << >> and Some(v) is <<v>>.*)
(***************************************************************************)
EXTENDS Integers, Sequences, FiniteSets, TLC

\* ------------------------------------------------------------------------
\* Bounds of the exploration
\* ------------------------------------------------------------------------

\* the largest number of frames the driver lets the chains hold in total
MaxLen == 3

\* the largest number of new_child calls, and of remove_child calls, the
\* push/pop driver makes
MaxCalls == 4

\* the most frames of a chain that a chain is compared with
MaxOtherLen == 2

\* the most insert calls made between a new_child and its remove_child
MaxInserts == 2

\* the keys (and set members) and the values the driver passes in
Keys == {"x", "y"}
Vals == {1, 2}

\* every frame index the driver passes to an index-addressed operation: the
\* valid indices and, for every chain length, at least one out-of-range index
Indices == 0..MaxLen

\* ------------------------------------------------------------------------
\* Option and Result values
\* ------------------------------------------------------------------------

None == << >>
Some(v) == <<v>>
IsSome(o) == Len(o) = 1
Unwrap(o) == o[1]
Ok(v) == <<"Ok", v>>
Err(e) == <<"Err", e>>
IndexOutOfRange == "IndexOutOfRange"

\* ------------------------------------------------------------------------
\* std HashMap / HashSet, im_rc HashMap: the frame containers
\* ------------------------------------------------------------------------

\* HashMap::new() / HashMap::default(): the frame that binds no key
HashMap_new == [k \in {} |-> 0]

\* every frame the driver can pass to new() or new_child_with()
Frames == UNION {[D -> Vals] : D \in SUBSET Keys}

\* HashSet::new()
HashSet_new == {}

\* every set frame the driver can pass to ChainSet::new() or new_child_with()
SetFrames == SUBSET Keys

HashMap_contains_key(map, key) == key \in DOMAIN map

HashMap_get(map, key) == IF key \in DOMAIN map THEN Some(map[key]) ELSE None

\* HashMap::insert: the map after the insertion, and the value returned
HashMap_insert_map(map, key, value) ==
    [q \in (DOMAIN map) \cup {key} |-> IF q = key THEN value ELSE map[q]]

HashMap_insert_ret(map, key) == HashMap_get(map, key)

\* Vec::get / Vector::get with a 0-based index.  An index below 0 stands for
\* a usize that wrapped around to usize::MAX, which is beyond every vector.
Vec_get(maps, idx) ==
    IF idx \in 0..(Len(maps) - 1) THEN Some(maps[idx + 1]) ELSE None

\* Vec::pop / Vector::pop_back: the sequence without its last element
Vec_pop(maps) == SubSeq(maps, 1, Len(maps) - 1)

\* ------------------------------------------------------------------------
\* State
\* ------------------------------------------------------------------------

VARIABLES
    subject,    \* which structure the driver has constructed: "none",
                \* "ChainMap", "LockedChainMap", "ChainSet" or
                \* "lib::ChainMap"
    chainMap,   \* ChainMap.maps         (src/map.rs, src/lib.rs)
    locked,     \* LockedChainMap.maps   (src/imutable.rs)
    tail,       \* the LockedChainMap returned by split_off and not yet
                \* appended: None, or Some(its maps)
    chainSet,   \* ChainSet.sets         (src/set.rs)
    last,       \* the last call: its name and its return value
    panicked,   \* TRUE once a call has panicked; the driver then stops
    hist        \* call counts kept by the push/pop driver (see SpecPushPop)

vars == <<subject, chainMap, locked, tail, chainSet, last, panicked, hist>>

Call(op, ret) == [op |-> op, ret |-> ret]

\* the return value of a call that returns ()
Unit == << >>

\* ------------------------------------------------------------------------
\* ChainMap (src/map.rs): the methods as functions of self.maps
\* ------------------------------------------------------------------------

\* the loop `for map in maps[0..n].iter().rev()`: scan frames n-1 .. 0 and
\* return the first binding of key
RECURSIVE ChainMap_scan(_, _, _)
ChainMap_scan(maps, n, key) ==
    IF n = 0 THEN None
    ELSE IF IsSome(HashMap_get(maps[n], key)) THEN HashMap_get(maps[n], key)
    ELSE ChainMap_scan(maps, n - 1, key)

\* a get that looks at the leaf frame only
ChainMap_get_leaf_only(maps, key) ==
    IF Len(maps) = 0 THEN None ELSE HashMap_get(maps[Len(maps)], key)

ChainMap_get(maps, key) == ChainMap_scan(maps, Len(maps), key)

\* a get_before that also searches frame idx
ChainMap_get_before_inclusive(maps, idx, key) ==
    IF idx >= Len(maps) THEN ChainMap_scan(maps, Len(maps), key)
    ELSE ChainMap_scan(maps, idx + 1, key)

ChainMap_get_before(maps, idx, key) ==
    IF idx >= Len(maps) THEN ChainMap_scan(maps, Len(maps), key)
    ELSE ChainMap_scan(maps, idx, key)

\* the same loop over iter_mut(): the handle returned is the 0-based index of
\* the frame whose binding of key the &mut V points to
RECURSIVE ChainMap_scan_mut(_, _, _)
ChainMap_scan_mut(maps, n, key) ==
    IF n = 0 THEN None
    ELSE IF HashMap_contains_key(maps[n], key) THEN Some(n - 1)
    ELSE ChainMap_scan_mut(maps, n - 1, key)

\* a get_mut that looks at the leaf frame only
ChainMap_get_mut_leaf_only(maps, key) ==
    IF Len(maps) > 0 /\ HashMap_contains_key(maps[Len(maps)], key)
    THEN Some(Len(maps) - 1)
    ELSE None

ChainMap_get_mut(maps, key) == ChainMap_scan_mut(maps, Len(maps), key)

ChainMap_get_before_mut(maps, idx, key) ==
    IF idx >= Len(maps) THEN ChainMap_scan_mut(maps, Len(maps), key)
    ELSE ChainMap_scan_mut(maps, idx, key)

\* a has_at that also finds key in the frames below idx
ChainMap_has_at_or_below(maps, idx, key) ==
    IF IsSome(Vec_get(maps, idx))
    THEN \E f \in 1..(idx + 1) : HashMap_contains_key(maps[f], key)
    ELSE FALSE

ChainMap_has_at(maps, idx, key) ==
    IF IsSome(Vec_get(maps, idx))
    THEN HashMap_contains_key(Unwrap(Vec_get(maps, idx)), key)
    ELSE FALSE

ChainMap_last_has(maps, key) == ChainMap_has_at(maps, Len(maps) - 1, key)

ChainMap_child_len(maps) == Len(maps)

RECURSIVE ChainMap_scan_index(_, _, _)
ChainMap_scan_index(maps, n, key) ==
    IF n = 0 THEN None
    ELSE IF HashMap_contains_key(maps[n], key) THEN Some(n - 1)
    ELSE ChainMap_scan_index(maps, n - 1, key)

\* a get_last_index that counts the frames from 1
ChainMap_get_last_index_from_one(maps, key) ==
    IF IsSome(ChainMap_scan_index(maps, Len(maps), key))
    THEN Some(Unwrap(ChainMap_scan_index(maps, Len(maps), key)) + 1)
    ELSE None

ChainMap_get_last_index(maps, key) == ChainMap_scan_index(maps, Len(maps), key)

\* an == that compares what get returns for every key
ChainMap_eq_of_views(a, b) ==
    \A key \in Keys : ChainMap_get(a, key) = ChainMap_get(b, key)

\* PartialEq: self.maps == other.maps
ChainMap_eq(a, b) == a = b

\* insert: the chain after the call, and the value returned
ChainMap_insert_maps(maps, key, value) ==
    IF Len(maps) = 0 THEN maps
    ELSE [maps EXCEPT ![Len(maps)] = HashMap_insert_map(maps[Len(maps)], key, value)]

\* an insert that reports the binding visible through the whole chain
ChainMap_insert_ret_shadowed(maps, key, value) == ChainMap_get(maps, key)

ChainMap_insert_ret(maps, key, value) ==
    IF Len(maps) = 0 THEN None
    ELSE HashMap_insert_ret(maps[Len(maps)], key)

\* an insert_at that writes into the leaf whatever the index
ChainMap_insert_at_into_leaf(maps, idx, key, value) ==
    IF IsSome(Vec_get(maps, idx))
    THEN [maps EXCEPT ![Len(maps)] = HashMap_insert_map(maps[Len(maps)], key, value)]
    ELSE maps

ChainMap_insert_at_maps(maps, idx, key, value) ==
    IF IsSome(Vec_get(maps, idx))
    THEN [maps EXCEPT ![idx + 1] = HashMap_insert_map(maps[idx + 1], key, value)]
    ELSE maps

ChainMap_insert_at_ret(maps, idx, key, value) ==
    IF IsSome(Vec_get(maps, idx))
    THEN Ok(HashMap_insert_ret(maps[idx + 1], key))
    ELSE Err(IndexOutOfRange)

ChainMap_new_child_with_maps(maps, map) == Append(maps, map)

\* a new_child that empties the leaf instead of pushing a frame
ChainMap_new_child_resets_leaf(maps) ==
    IF Len(maps) = 0 THEN maps ELSE [maps EXCEPT ![Len(maps)] = HashMap_new]

ChainMap_new_child_maps(maps) == Append(maps, HashMap_new)

ChainMap_remove_child_maps(maps) ==
    IF Len(maps) = 1 THEN [maps EXCEPT ![1] = HashMap_new]
    ELSE Vec_pop(maps)

ChainMap_remove_child_ret(maps) ==
    IF Len(maps) = 1 THEN Some(maps[1])
    ELSE IF Len(maps) = 0 THEN None
    ELSE Some(maps[Len(maps)])

\* `*handle = value` for a handle returned by get_mut / get_before_mut
WriteThrough(maps, handle, key, value) ==
    IF IsSome(handle)
    THEN [maps EXCEPT ![Unwrap(handle) + 1][key] = value]
    ELSE maps

\* ------------------------------------------------------------------------
\* ChainMap: the calls the driver makes
\* ------------------------------------------------------------------------

Running(s) == subject = s /\ ~panicked

OnlyChainMap == UNCHANGED <<subject, locked, tail, chainSet, panicked>>

ChainMap_new(map) ==
    /\ subject = "none"
    /\ subject' = "ChainMap"
    /\ chainMap' = <<map>>
    /\ last' = Call("new", Unit)
    /\ UNCHANGED <<locked, tail, chainSet, panicked>>

Do_ChainMap_new ==
    /\ \E map \in Frames :
        ChainMap_new(map)
    /\ UNCHANGED hist

ChainMap_default ==
    /\ subject = "none"
    /\ subject' = "ChainMap"
    /\ chainMap' = <<HashMap_new>>
    /\ last' = Call("default", Unit)
    /\ UNCHANGED <<locked, tail, chainSet, panicked>>

Do_ChainMap_default ==
    /\ ChainMap_default
    /\ UNCHANGED hist

ChainMap_insert(key, value) ==
    /\ Running("ChainMap")
    /\ chainMap' = ChainMap_insert_maps(chainMap, key, value)
    /\ last' = Call("insert",
                    ChainMap_insert_ret(chainMap, key, value))
    /\ OnlyChainMap

Do_ChainMap_insert ==
    /\ \E key \in Keys, value \in Vals :
        ChainMap_insert(key, value)
    /\ UNCHANGED hist

ChainMap_insert_at(idx, key, value) ==
    /\ Running("ChainMap")
    /\ chainMap' = ChainMap_insert_at_maps(chainMap, idx, key, value)
    /\ last' = Call("insert_at",
                    ChainMap_insert_at_ret(chainMap, idx, key, value))
    /\ OnlyChainMap

Do_ChainMap_insert_at ==
    /\ \E idx \in Indices, key \in Keys, value \in Vals :
        ChainMap_insert_at(idx, key, value)
    /\ UNCHANGED hist

\* get_mut followed by a write of value through the handle, when there is one
ChainMap_get_mut_write(key, value) ==
    /\ Running("ChainMap")
    /\ chainMap' = WriteThrough(chainMap, ChainMap_get_mut(chainMap, key), key, value)
    /\ last' = Call("get_mut", ChainMap_get_mut(chainMap, key))
    /\ OnlyChainMap

Do_ChainMap_get_mut_write ==
    /\ \E key \in Keys, value \in Vals :
        ChainMap_get_mut_write(key, value)
    /\ UNCHANGED hist

ChainMap_get_before_mut_write(idx, key, value) ==
    /\ Running("ChainMap")
    /\ chainMap' = WriteThrough(chainMap,
                       ChainMap_get_before_mut(chainMap, idx, key), key, value)
    /\ last' = Call("get_before_mut",
                    ChainMap_get_before_mut(chainMap, idx, key))
    /\ OnlyChainMap

Do_ChainMap_get_before_mut_write ==
    /\ \E idx \in Indices, key \in Keys, value \in Vals :
        ChainMap_get_before_mut_write(idx, key, value)
    /\ UNCHANGED hist

ChainMap_new_child ==
    /\ Running("ChainMap")
    /\ Len(chainMap) < MaxLen
    /\ chainMap' = ChainMap_new_child_maps(chainMap)
    /\ last' = Call("new_child", Unit)
    /\ OnlyChainMap

Do_ChainMap_new_child ==
    /\ ChainMap_new_child
    /\ UNCHANGED hist

ChainMap_new_child_with(map) ==
    /\ Running("ChainMap")
    /\ Len(chainMap) < MaxLen
    /\ chainMap' = ChainMap_new_child_with_maps(chainMap, map)
    /\ last' = Call("new_child_with", Unit)
    /\ OnlyChainMap

Do_ChainMap_new_child_with ==
    /\ \E map \in Frames :
        ChainMap_new_child_with(map)
    /\ UNCHANGED hist

ChainMap_remove_child ==
    /\ Running("ChainMap")
    /\ chainMap' = ChainMap_remove_child_maps(chainMap)
    /\ last' = Call("remove_child",
                    ChainMap_remove_child_ret(chainMap))
    /\ OnlyChainMap

Do_ChainMap_remove_child ==
    /\ ChainMap_remove_child
    /\ UNCHANGED hist

\* ------------------------------------------------------------------------
\* LockedChainMap (src/imutable.rs): the methods as functions of self.maps
\* ------------------------------------------------------------------------

\* the loop `for map in self.maps.iter().rev()` from frame n-1 down to 0
RECURSIVE LockedChainMap_scan(_, _, _)
LockedChainMap_scan(maps, n, key) ==
    IF n = 0 THEN None
    ELSE IF IsSome(HashMap_get(maps[n], key)) THEN HashMap_get(maps[n], key)
    ELSE LockedChainMap_scan(maps, n - 1, key)

LockedChainMap_get(maps, key) == LockedChainMap_scan(maps, Len(maps), key)

\* the loop `for i in (0..idx).rev()` with `self.maps.get(i)`: indices
\* n-1 .. 0, skipping those that name no frame
RECURSIVE LockedChainMap_get_before_loop(_, _, _)
LockedChainMap_get_before_loop(maps, n, key) ==
    IF n = 0 THEN None
    ELSE IF /\ IsSome(Vec_get(maps, n - 1))
            /\ IsSome(HashMap_get(Unwrap(Vec_get(maps, n - 1)), key))
         THEN HashMap_get(Unwrap(Vec_get(maps, n - 1)), key)
    ELSE LockedChainMap_get_before_loop(maps, n - 1, key)

\* a get_before whose window includes frame idx
LockedChainMap_get_before_inclusive(maps, idx, key) ==
    LockedChainMap_get_before_loop(maps, idx + 1, key)

LockedChainMap_get_before(maps, idx, key) ==
    LockedChainMap_get_before_loop(maps, idx, key)

\* the loop over iter_mut().rev(): the handle is the 0-based frame index
RECURSIVE LockedChainMap_scan_mut(_, _, _)
LockedChainMap_scan_mut(maps, n, key) ==
    IF n = 0 THEN None
    ELSE IF HashMap_contains_key(maps[n], key) THEN Some(n - 1)
    ELSE LockedChainMap_scan_mut(maps, n - 1, key)

LockedChainMap_get_mut(maps, key) == LockedChainMap_scan_mut(maps, Len(maps), key)

\* the loop over iter_mut().enumerate().rev() with `if i > idx { continue }`,
\* where i = n - 1 is the 0-based index of frame maps[n]
RECURSIVE LockedChainMap_get_before_mut_loop(_, _, _, _)
LockedChainMap_get_before_mut_loop(maps, n, idx, key) ==
    IF n = 0 THEN None
    ELSE IF n - 1 > idx THEN LockedChainMap_get_before_mut_loop(maps, n - 1, idx, key)
    ELSE IF HashMap_contains_key(maps[n], key) THEN Some(n - 1)
    ELSE LockedChainMap_get_before_mut_loop(maps, n - 1, idx, key)

LockedChainMap_get_before_mut(maps, idx, key) ==
    LockedChainMap_get_before_mut_loop(maps, Len(maps), idx, key)

LockedChainMap_has_at(maps, idx, key) ==
    IF IsSome(Vec_get(maps, idx))
    THEN HashMap_contains_key(Unwrap(Vec_get(maps, idx)), key)
    ELSE FALSE

\* self.maps.len() - 1 is -1 here when the chain has no frame: the wrapped
\* index of a build without overflow checks (see Vec_get)
LockedChainMap_last_has(maps, key) == LockedChainMap_has_at(maps, Len(maps) - 1, key)

LockedChainMap_child_len(maps) == Len(maps)

RECURSIVE LockedChainMap_scan_index(_, _, _)
LockedChainMap_scan_index(maps, n, key) ==
    IF n = 0 THEN None
    ELSE IF HashMap_contains_key(maps[n], key) THEN Some(n - 1)
    ELSE LockedChainMap_scan_index(maps, n - 1, key)

\* a get_last_index that scans from the root and returns the first frame
\* binding key
LockedChainMap_get_last_index_from_root(maps, key) ==
    IF \E f \in 1..Len(maps) : key \in DOMAIN maps[f]
    THEN Some((CHOOSE f \in 1..Len(maps) :
                  /\ key \in DOMAIN maps[f]
                  /\ \A g \in 1..(f - 1) : key \notin DOMAIN maps[g]) - 1)
    ELSE None

LockedChainMap_get_last_index(maps, key) ==
    LockedChainMap_scan_index(maps, Len(maps), key)

LockedChainMap_eq(a, b) == a = b

\* `self.maps.len() - 1` on a chain without frames panics in a build with
\* overflow checks
LockedChainMap_insert_panics(maps, overflow_checks) ==
    Len(maps) = 0 /\ overflow_checks

\* insert, once `self.maps.len() - 1` has been computed without a panic
LockedChainMap_insert_maps(maps, key, value) ==
    IF IsSome(Vec_get(maps, Len(maps) - 1))
    THEN [maps EXCEPT ![Len(maps)] = HashMap_insert_map(maps[Len(maps)], key, value)]
    ELSE maps

LockedChainMap_insert_ret(maps, key, value) ==
    IF IsSome(Vec_get(maps, Len(maps) - 1))
    THEN HashMap_insert_ret(maps[Len(maps)], key)
    ELSE None

\* an insert_at that clamps an out-of-range index to the leaf
LockedChainMap_insert_at_clamped(maps, idx, key, value) ==
    IF Len(maps) = 0 THEN maps
    ELSE IF idx < Len(maps)
    THEN [maps EXCEPT ![idx + 1] = HashMap_insert_map(maps[idx + 1], key, value)]
    ELSE [maps EXCEPT ![Len(maps)] = HashMap_insert_map(maps[Len(maps)], key, value)]

LockedChainMap_insert_at_maps(maps, idx, key, value) ==
    IF IsSome(Vec_get(maps, idx))
    THEN [maps EXCEPT ![idx + 1] = HashMap_insert_map(maps[idx + 1], key, value)]
    ELSE maps

LockedChainMap_insert_at_ret(maps, idx, key, value) ==
    IF IsSome(Vec_get(maps, idx))
    THEN Ok(HashMap_insert_ret(maps[idx + 1], key))
    ELSE Err(IndexOutOfRange)

LockedChainMap_new_child_with_maps(maps, map) == Append(maps, map)

LockedChainMap_new_child_maps(maps) == Append(maps, HashMap_new)

\* a remove_child that pops whatever the length
LockedChainMap_remove_child_always_pops(maps) == Vec_pop(maps)

LockedChainMap_remove_child_maps(maps) ==
    IF Len(maps) = 1 THEN [maps EXCEPT ![1] = HashMap_new]
    ELSE Vec_pop(maps)

LockedChainMap_remove_child_ret(maps) ==
    IF Len(maps) = 1 THEN Some(maps[1])
    ELSE IF Len(maps) = 0 THEN None
    ELSE Some(maps[Len(maps)])

\* #[derive(Clone)]: the clone holds the same frames
LockedChainMap_clone(maps) == maps

\* a split_off that leaves frame idx in self as well
LockedChainMap_split_off_self_inclusive(maps, idx) ==
    SubSeq(maps, 1, IF idx < Len(maps) THEN idx + 1 ELSE idx)

\* split_off(idx) for idx <= len: what stays in self, and the chain returned
LockedChainMap_split_off_self(maps, idx) == SubSeq(maps, 1, idx)

\* a split_off that loses frame idx
LockedChainMap_split_off_ret_loses_frame(maps, idx) ==
    SubSeq(maps, idx + 2, Len(maps))

LockedChainMap_split_off_ret(maps, idx) == SubSeq(maps, idx + 1, Len(maps))

\* an append that puts the frames of other below those of self
LockedChainMap_append_below(maps, other) == other \o maps

LockedChainMap_append_maps(maps, other) == maps \o other

\* ------------------------------------------------------------------------
\* LockedChainMap: the calls the driver makes
\* ------------------------------------------------------------------------

OnlyLocked == UNCHANGED <<subject, chainMap, tail, chainSet, panicked>>

\* the frames the driver holds in the chain and in the split-off chain
LockedFrames == Len(locked) + (IF IsSome(tail) THEN Len(Unwrap(tail)) ELSE 0)

LockedChainMap_new(map) ==
    /\ subject = "none"
    /\ subject' = "LockedChainMap"
    /\ locked' = <<map>>
    /\ last' = Call("new", Unit)
    /\ UNCHANGED <<chainMap, tail, chainSet, panicked>>

Do_LockedChainMap_new ==
    /\ \E map \in Frames :
        LockedChainMap_new(map)
    /\ UNCHANGED hist

LockedChainMap_default ==
    /\ subject = "none"
    /\ subject' = "LockedChainMap"
    /\ locked' = <<HashMap_new>>
    /\ last' = Call("default", Unit)
    /\ UNCHANGED <<chainMap, tail, chainSet, panicked>>

Do_LockedChainMap_default ==
    /\ LockedChainMap_default
    /\ UNCHANGED hist

\* `self.maps.len() - 1` on a chain without frames panics in a build with
\* overflow checks and wraps in a build without them
LockedChainMap_insert(key, value, overflow_checks) ==
    /\ Running("LockedChainMap")
    /\ IF LockedChainMap_insert_panics(locked, overflow_checks)
       THEN /\ panicked' = TRUE
            /\ last' = Call("insert", Unit)
            /\ UNCHANGED <<subject, chainMap, locked, tail, chainSet>>
       ELSE /\ locked' = LockedChainMap_insert_maps(locked, key, value)
            /\ last' = Call("insert",
                            LockedChainMap_insert_ret(locked, key, value))
            /\ OnlyLocked

Do_LockedChainMap_insert ==
    /\ \E key \in Keys, value \in Vals, overflow_checks \in BOOLEAN :
        LockedChainMap_insert(key, value, overflow_checks)
    /\ UNCHANGED hist

LockedChainMap_insert_at(idx, key, value) ==
    /\ Running("LockedChainMap")
    /\ locked' = LockedChainMap_insert_at_maps(locked, idx, key, value)
    /\ last' = Call("insert_at",
                    LockedChainMap_insert_at_ret(locked, idx, key, value))
    /\ OnlyLocked

Do_LockedChainMap_insert_at ==
    /\ \E idx \in Indices, key \in Keys, value \in Vals :
        LockedChainMap_insert_at(idx, key, value)
    /\ UNCHANGED hist

LockedChainMap_get_mut_write(key, value) ==
    /\ Running("LockedChainMap")
    /\ locked' = WriteThrough(locked, LockedChainMap_get_mut(locked, key), key, value)
    /\ last' = Call("get_mut", LockedChainMap_get_mut(locked, key))
    /\ OnlyLocked

Do_LockedChainMap_get_mut_write ==
    /\ \E key \in Keys, value \in Vals :
        LockedChainMap_get_mut_write(key, value)
    /\ UNCHANGED hist

LockedChainMap_get_before_mut_write(idx, key, value) ==
    /\ Running("LockedChainMap")
    /\ locked' = WriteThrough(locked,
                     LockedChainMap_get_before_mut(locked, idx, key), key, value)
    /\ last' = Call("get_before_mut",
                    LockedChainMap_get_before_mut(locked, idx, key))
    /\ OnlyLocked

Do_LockedChainMap_get_before_mut_write ==
    /\ \E idx \in Indices, key \in Keys, value \in Vals :
        LockedChainMap_get_before_mut_write(idx, key, value)
    /\ UNCHANGED hist

LockedChainMap_new_child ==
    /\ Running("LockedChainMap")
    /\ LockedFrames < MaxLen
    /\ locked' = LockedChainMap_new_child_maps(locked)
    /\ last' = Call("new_child", Unit)
    /\ OnlyLocked

Do_LockedChainMap_new_child ==
    /\ LockedChainMap_new_child
    /\ UNCHANGED hist

LockedChainMap_new_child_with(map) ==
    /\ Running("LockedChainMap")
    /\ LockedFrames < MaxLen
    /\ locked' = LockedChainMap_new_child_with_maps(locked, map)
    /\ last' = Call("new_child_with", Unit)
    /\ OnlyLocked

Do_LockedChainMap_new_child_with ==
    /\ \E map \in Frames :
        LockedChainMap_new_child_with(map)
    /\ UNCHANGED hist

LockedChainMap_remove_child ==
    /\ Running("LockedChainMap")
    /\ locked' = LockedChainMap_remove_child_maps(locked)
    /\ last' = Call("remove_child",
                    LockedChainMap_remove_child_ret(locked))
    /\ OnlyLocked

Do_LockedChainMap_remove_child ==
    /\ LockedChainMap_remove_child
    /\ UNCHANGED hist

\* Vector::split_off panics when idx > len; the driver keeps the returned
\* chain in tail
LockedChainMap_split_off(idx) ==
    /\ Running("LockedChainMap")
    /\ tail = None
    /\ IF idx > Len(locked)
       THEN /\ panicked' = TRUE
            /\ last' = Call("split_off", Unit)
            /\ UNCHANGED <<subject, chainMap, locked, tail, chainSet>>
       ELSE /\ locked' = LockedChainMap_split_off_self(locked, idx)
            /\ tail' = Some(LockedChainMap_split_off_ret(locked, idx))
            /\ last' = Call("split_off", Unit)
            /\ UNCHANGED <<subject, chainMap, chainSet, panicked>>

Do_LockedChainMap_split_off ==
    /\ \E idx \in Indices :
        LockedChainMap_split_off(idx)
    /\ UNCHANGED hist

\* append(other) with the chain split_off returned; other is consumed
LockedChainMap_append ==
    /\ Running("LockedChainMap")
    /\ IsSome(tail)
    /\ locked' = LockedChainMap_append_maps(locked, Unwrap(tail))
    /\ tail' = None
    /\ last' = Call("append", Unit)
    /\ UNCHANGED <<subject, chainMap, chainSet, panicked>>

Do_LockedChainMap_append ==
    /\ LockedChainMap_append
    /\ UNCHANGED hist

\* ------------------------------------------------------------------------
\* ChainSet (src/set.rs)
\* ------------------------------------------------------------------------

\* HashSet::insert returns true iff the value was not in the set
ChainSet_insert_sets(sets, value) ==
    IF Len(sets) > 0
    THEN [sets EXCEPT ![Len(sets)] = sets[Len(sets)] \cup {value}]
    ELSE Append(sets, HashSet_new \cup {value})

\* an insert that reports whether value was in no frame of the chain
ChainSet_insert_ret_any_frame(sets, value) ==
    \A f \in 1..Len(sets) : value \notin sets[f]

ChainSet_insert_ret(sets, value) ==
    IF Len(sets) > 0
    THEN value \notin sets[Len(sets)]
    ELSE FALSE

RECURSIVE ChainSet_scan(_, _, _)
ChainSet_scan(sets, n, value) ==
    IF n = 0 THEN None
    ELSE IF value \in sets[n] THEN Some(value)
    ELSE ChainSet_scan(sets, n - 1, value)

\* a get that looks at the leaf frame only
ChainSet_get_leaf_only(sets, value) ==
    IF Len(sets) > 0 /\ value \in sets[Len(sets)] THEN Some(value) ELSE None

ChainSet_get(sets, value) == ChainSet_scan(sets, Len(sets), value)

ChainSet_new_child_sets(sets) == Append(sets, HashSet_new)

ChainSet_new_child_with_sets(sets, map) == Append(sets, map)

\* a remove_child that forgets to empty the last frame
ChainSet_remove_child_keeps_last(sets) ==
    IF Len(sets) = 1 THEN sets ELSE Vec_pop(sets)

ChainSet_remove_child_sets(sets) ==
    IF Len(sets) = 1 THEN [sets EXCEPT ![1] = HashSet_new]
    ELSE Vec_pop(sets)

ChainSet_remove_child_ret(sets) ==
    IF Len(sets) = 1 THEN Some(sets[1])
    ELSE IF Len(sets) = 0 THEN None
    ELSE Some(sets[Len(sets)])

OnlyChainSet == UNCHANGED <<subject, chainMap, locked, tail, panicked>>

ChainSet_new(set) ==
    /\ subject = "none"
    /\ subject' = "ChainSet"
    /\ chainSet' = <<set>>
    /\ last' = Call("new", Unit)
    /\ UNCHANGED <<chainMap, locked, tail, panicked>>

Do_ChainSet_new ==
    /\ \E set \in SetFrames :
        ChainSet_new(set)
    /\ UNCHANGED hist

ChainSet_default ==
    /\ subject = "none"
    /\ subject' = "ChainSet"
    /\ chainSet' = <<HashSet_new>>
    /\ last' = Call("default", Unit)
    /\ UNCHANGED <<chainMap, locked, tail, panicked>>

Do_ChainSet_default ==
    /\ ChainSet_default
    /\ UNCHANGED hist

ChainSet_insert(value) ==
    /\ Running("ChainSet")
    /\ chainSet' = ChainSet_insert_sets(chainSet, value)
    /\ last' = Call("insert", ChainSet_insert_ret(chainSet, value))
    /\ OnlyChainSet

Do_ChainSet_insert ==
    /\ \E value \in Keys :
        ChainSet_insert(value)
    /\ UNCHANGED hist

ChainSet_new_child ==
    /\ Running("ChainSet")
    /\ Len(chainSet) < MaxLen
    /\ chainSet' = ChainSet_new_child_sets(chainSet)
    /\ last' = Call("new_child", Unit)
    /\ OnlyChainSet

Do_ChainSet_new_child ==
    /\ ChainSet_new_child
    /\ UNCHANGED hist

ChainSet_new_child_with(set) ==
    /\ Running("ChainSet")
    /\ Len(chainSet) < MaxLen
    /\ chainSet' = ChainSet_new_child_with_sets(chainSet, set)
    /\ last' = Call("new_child_with", Unit)
    /\ OnlyChainSet

Do_ChainSet_new_child_with ==
    /\ \E set \in SetFrames :
        ChainSet_new_child_with(set)
    /\ UNCHANGED hist

ChainSet_remove_child ==
    /\ Running("ChainSet")
    /\ chainSet' = ChainSet_remove_child_sets(chainSet)
    /\ last' = Call("remove_child",
                    ChainSet_remove_child_ret(chainSet))
    /\ OnlyChainSet

Do_ChainSet_remove_child ==
    /\ ChainSet_remove_child
    /\ UNCHANGED hist

\* ------------------------------------------------------------------------
\* The ChainMap of src/lib.rs, the crate root: an earlier ChainMap with new,
\* default, insert, get, get_mut, new_child, new_child_with and Index.  Its
\* maps field is kept in chainMap while subject is "lib::ChainMap".
\* ------------------------------------------------------------------------

\* the loop `for map in self.maps.iter().rev()`
RECURSIVE Lib_ChainMap_scan(_, _, _)
Lib_ChainMap_scan(maps, n, key) ==
    IF n = 0 THEN None
    ELSE IF IsSome(HashMap_get(maps[n], key)) THEN HashMap_get(maps[n], key)
    ELSE Lib_ChainMap_scan(maps, n - 1, key)

Lib_ChainMap_get(maps, key) == Lib_ChainMap_scan(maps, Len(maps), key)

\* `let map = self.maps.last_mut()?; map.get_mut(key)`: the handle is the
\* 0-based index of the frame the &mut V points into
Lib_ChainMap_get_mut(maps, key) ==
    IF Len(maps) = 0 THEN None
    ELSE IF HashMap_contains_key(maps[Len(maps)], key) THEN Some(Len(maps) - 1)
    ELSE None

Lib_ChainMap_insert_maps(maps, key, value) ==
    IF Len(maps) = 0 THEN maps
    ELSE [maps EXCEPT ![Len(maps)] = HashMap_insert_map(maps[Len(maps)], key, value)]

Lib_ChainMap_insert_ret(maps, key, value) ==
    IF Len(maps) = 0 THEN None
    ELSE HashMap_insert_ret(maps[Len(maps)], key)

Lib_ChainMap_new_child_maps(maps) == Append(maps, HashMap_new)

Lib_ChainMap_new_child_with_maps(maps, map) == Append(maps, map)

Lib_ChainMap_new(map) ==
    /\ subject = "none"
    /\ subject' = "lib::ChainMap"
    /\ chainMap' = <<map>>
    /\ last' = Call("new", Unit)
    /\ UNCHANGED <<locked, tail, chainSet, panicked>>

Do_Lib_ChainMap_new ==
    /\ \E map \in Frames :
        Lib_ChainMap_new(map)
    /\ UNCHANGED hist

Lib_ChainMap_default ==
    /\ subject = "none"
    /\ subject' = "lib::ChainMap"
    /\ chainMap' = <<HashMap_new>>
    /\ last' = Call("default", Unit)
    /\ UNCHANGED <<locked, tail, chainSet, panicked>>

Do_Lib_ChainMap_default ==
    /\ Lib_ChainMap_default
    /\ UNCHANGED hist

Lib_ChainMap_insert(key, value) ==
    /\ Running("lib::ChainMap")
    /\ chainMap' = Lib_ChainMap_insert_maps(chainMap, key, value)
    /\ last' = Call("insert", Lib_ChainMap_insert_ret(chainMap, key, value))
    /\ OnlyChainMap

Do_Lib_ChainMap_insert ==
    /\ \E key \in Keys, value \in Vals :
        Lib_ChainMap_insert(key, value)
    /\ UNCHANGED hist

\* get_mut followed by a write of value through the handle, when there is one
Lib_ChainMap_get_mut_write(key, value) ==
    /\ Running("lib::ChainMap")
    /\ chainMap' = WriteThrough(chainMap, Lib_ChainMap_get_mut(chainMap, key),
                                key, value)
    /\ last' = Call("get_mut", Lib_ChainMap_get_mut(chainMap, key))
    /\ OnlyChainMap

Do_Lib_ChainMap_get_mut_write ==
    /\ \E key \in Keys, value \in Vals :
        Lib_ChainMap_get_mut_write(key, value)
    /\ UNCHANGED hist

Lib_ChainMap_new_child ==
    /\ Running("lib::ChainMap")
    /\ Len(chainMap) < MaxLen
    /\ chainMap' = Lib_ChainMap_new_child_maps(chainMap)
    /\ last' = Call("new_child", Unit)
    /\ OnlyChainMap

Do_Lib_ChainMap_new_child ==
    /\ Lib_ChainMap_new_child
    /\ UNCHANGED hist

Lib_ChainMap_new_child_with(map) ==
    /\ Running("lib::ChainMap")
    /\ Len(chainMap) < MaxLen
    /\ chainMap' = Lib_ChainMap_new_child_with_maps(chainMap, map)
    /\ last' = Call("new_child_with", Unit)
    /\ OnlyChainMap

Do_Lib_ChainMap_new_child_with ==
    /\ \E map \in Frames :
        Lib_ChainMap_new_child_with(map)
    /\ UNCHANGED hist

\* ------------------------------------------------------------------------
\* Reads that can panic: the Index operator `chain[&key]` and last_has, in
\* ChainMap (src/map.rs) and LockedChainMap (src/imutable.rs)
\* ------------------------------------------------------------------------

\* `self.get(key).expect("no entry found for key")` panics on None
ChainMap_index_panics(maps, key) == ~IsSome(ChainMap_get(maps, key))

ChainMap_index(maps, key) == Unwrap(ChainMap_get(maps, key))

\* an Index that never panics
LockedChainMap_index_never_panics(maps, key) == FALSE

LockedChainMap_index_panics(maps, key) == ~IsSome(LockedChainMap_get(maps, key))

LockedChainMap_index(maps, key) == Unwrap(LockedChainMap_get(maps, key))

\* `self.maps.len() - 1` on a chain without frames panics in a build with
\* overflow checks; in a build without them it wraps and has_at finds no frame
ChainMap_last_has_panics(maps, overflow_checks) ==
    Len(maps) = 0 /\ overflow_checks

LockedChainMap_last_has_panics(maps, overflow_checks) ==
    Len(maps) = 0 /\ overflow_checks

ChainMap_index_read(key) ==
    /\ Running("ChainMap")
    /\ IF ChainMap_index_panics(chainMap, key)
       THEN /\ panicked' = TRUE
            /\ last' = Call("index", Unit)
       ELSE /\ last' = Call("index", ChainMap_index(chainMap, key))
            /\ UNCHANGED panicked
    /\ UNCHANGED <<subject, chainMap, locked, tail, chainSet>>

Do_ChainMap_index_read ==
    /\ \E key \in Keys :
        ChainMap_index_read(key)
    /\ UNCHANGED hist

LockedChainMap_index_read(key) ==
    /\ Running("LockedChainMap")
    /\ IF LockedChainMap_index_panics(locked, key)
       THEN /\ panicked' = TRUE
            /\ last' = Call("index", Unit)
       ELSE /\ last' = Call("index", LockedChainMap_index(locked, key))
            /\ UNCHANGED panicked
    /\ UNCHANGED <<subject, chainMap, locked, tail, chainSet>>

Do_LockedChainMap_index_read ==
    /\ \E key \in Keys :
        LockedChainMap_index_read(key)
    /\ UNCHANGED hist

ChainMap_last_has_read(key, overflow_checks) ==
    /\ Running("ChainMap")
    /\ IF ChainMap_last_has_panics(chainMap, overflow_checks)
       THEN /\ panicked' = TRUE
            /\ last' = Call("last_has", Unit)
       ELSE /\ last' = Call("last_has", ChainMap_last_has(chainMap, key))
            /\ UNCHANGED panicked
    /\ UNCHANGED <<subject, chainMap, locked, tail, chainSet>>

Do_ChainMap_last_has_read ==
    /\ \E key \in Keys, overflow_checks \in BOOLEAN :
        ChainMap_last_has_read(key, overflow_checks)
    /\ UNCHANGED hist

LockedChainMap_last_has_read(key, overflow_checks) ==
    /\ Running("LockedChainMap")
    /\ IF LockedChainMap_last_has_panics(locked, overflow_checks)
       THEN /\ panicked' = TRUE
            /\ last' = Call("last_has", Unit)
       ELSE /\ last' = Call("last_has", LockedChainMap_last_has(locked, key))
            /\ UNCHANGED panicked
    /\ UNCHANGED <<subject, chainMap, locked, tail, chainSet>>

Do_LockedChainMap_last_has_read ==
    /\ \E key \in Keys, overflow_checks \in BOOLEAN :
        LockedChainMap_last_has_read(key, overflow_checks)
    /\ UNCHANGED hist

\* ------------------------------------------------------------------------
\* Specification
\* ------------------------------------------------------------------------

Init ==
    /\ subject = "none"
    /\ chainMap = << >>
    /\ locked = << >>
    /\ tail = None
    /\ chainSet = << >>
    /\ last = Call("init", Unit)
    /\ panicked = FALSE
    /\ hist = [pushes |-> 0, pops |-> 0, poppedAtOne |-> FALSE]

Next ==
    \/ Do_ChainMap_new
    \/ Do_ChainMap_default
    \/ Do_ChainMap_insert
    \/ Do_ChainMap_insert_at
    \/ Do_ChainMap_get_mut_write
    \/ Do_ChainMap_get_before_mut_write
    \/ Do_ChainMap_new_child
    \/ Do_ChainMap_new_child_with
    \/ Do_ChainMap_remove_child
    \/ Do_LockedChainMap_new
    \/ Do_LockedChainMap_default
    \/ Do_LockedChainMap_insert
    \/ Do_LockedChainMap_insert_at
    \/ Do_LockedChainMap_get_mut_write
    \/ Do_LockedChainMap_get_before_mut_write
    \/ Do_LockedChainMap_new_child
    \/ Do_LockedChainMap_new_child_with
    \/ Do_LockedChainMap_remove_child
    \/ Do_LockedChainMap_split_off
    \/ Do_LockedChainMap_append
    \/ Do_ChainSet_new
    \/ Do_ChainSet_default
    \/ Do_ChainSet_insert
    \/ Do_ChainSet_new_child
    \/ Do_ChainSet_new_child_with
    \/ Do_ChainSet_remove_child

Spec == Init /\ [][Next]_vars

\* the calls C2 quantifies over: construction, new_child, new_child_with,
\* remove_child, insert and insert_at
NextCore ==
    \/ Do_ChainMap_new
    \/ Do_ChainMap_default
    \/ Do_ChainMap_insert
    \/ Do_ChainMap_insert_at
    \/ Do_ChainMap_new_child
    \/ Do_ChainMap_new_child_with
    \/ Do_ChainMap_remove_child
    \/ Do_LockedChainMap_new
    \/ Do_LockedChainMap_default
    \/ Do_LockedChainMap_insert
    \/ Do_LockedChainMap_insert_at
    \/ Do_LockedChainMap_new_child
    \/ Do_LockedChainMap_new_child_with
    \/ Do_LockedChainMap_remove_child
    \/ Do_ChainSet_new
    \/ Do_ChainSet_default
    \/ Do_ChainSet_insert
    \/ Do_ChainSet_new_child
    \/ Do_ChainSet_new_child_with
    \/ Do_ChainSet_remove_child

SpecCore == Init /\ [][NextCore]_vars

\* ------------------------------------------------------------------------
\* The push/pop driver: it constructs a chain, then only calls new_child and
\* remove_child, counting the calls of each and noting whether remove_child
\* was ever called on a chain of length 1
\* ------------------------------------------------------------------------

CountPush ==
    /\ hist.pushes < MaxCalls
    /\ hist' = [hist EXCEPT !.pushes = @ + 1]

CountPop(len) ==
    /\ hist.pops < MaxCalls
    /\ hist' = [hist EXCEPT !.pops = @ + 1, !.poppedAtOne = @ \/ len = 1]

Counted_ChainMap_new_child == ChainMap_new_child /\ CountPush

Counted_ChainMap_remove_child == ChainMap_remove_child /\ CountPop(Len(chainMap))

Counted_LockedChainMap_new_child == LockedChainMap_new_child /\ CountPush

Counted_LockedChainMap_remove_child ==
    LockedChainMap_remove_child /\ CountPop(Len(locked))

Counted_ChainSet_new_child == ChainSet_new_child /\ CountPush

Counted_ChainSet_remove_child == ChainSet_remove_child /\ CountPop(Len(chainSet))

NextPushPop ==
    \/ Do_ChainMap_new
    \/ Do_ChainMap_default
    \/ Counted_ChainMap_new_child
    \/ Counted_ChainMap_remove_child
    \/ Do_LockedChainMap_new
    \/ Do_LockedChainMap_default
    \/ Counted_LockedChainMap_new_child
    \/ Counted_LockedChainMap_remove_child
    \/ Do_ChainSet_new
    \/ Do_ChainSet_default
    \/ Counted_ChainSet_new_child
    \/ Counted_ChainSet_remove_child

SpecPushPop == Init /\ [][NextPushPop]_vars

\* ------------------------------------------------------------------------
\* The driver of split_off and append: it builds a LockedChainMap, splits it,
\* and appends the chain split_off returned
\* ------------------------------------------------------------------------

NextSplit ==
    \/ Do_LockedChainMap_new
    \/ Do_LockedChainMap_default
    \/ Do_LockedChainMap_insert
    \/ Do_LockedChainMap_new_child
    \/ Do_LockedChainMap_new_child_with
    \/ Do_LockedChainMap_remove_child
    \/ Do_LockedChainMap_split_off
    \/ Do_LockedChainMap_append

SpecSplit == Init /\ [][NextSplit]_vars

\* ------------------------------------------------------------------------
\* The driver of the ChainMap of src/lib.rs
\* ------------------------------------------------------------------------

NextLib ==
    \/ Do_Lib_ChainMap_new
    \/ Do_Lib_ChainMap_default
    \/ Do_Lib_ChainMap_insert
    \/ Do_Lib_ChainMap_get_mut_write
    \/ Do_Lib_ChainMap_new_child
    \/ Do_Lib_ChainMap_new_child_with

SpecLib == Init /\ [][NextLib]_vars

\* ------------------------------------------------------------------------
\* The lockstep driver: it constructs a ChainMap (src/map.rs) and a
\* LockedChainMap the same way and then makes every call on both; last.ret
\* is the pair of the two return values
\* ------------------------------------------------------------------------

InLockstep == subject = "ChainMap+LockedChainMap" /\ ~panicked

OnlyLockstep == UNCHANGED <<subject, tail, chainSet, panicked>>

Lockstep_new(map) ==
    /\ subject = "none"
    /\ subject' = "ChainMap+LockedChainMap"
    /\ chainMap' = <<map>>
    /\ locked' = <<map>>
    /\ last' = Call("new", <<Unit, Unit>>)
    /\ UNCHANGED <<tail, chainSet, panicked>>

Do_Lockstep_new ==
    /\ \E map \in Frames :
        Lockstep_new(map)
    /\ UNCHANGED hist

Lockstep_default ==
    /\ subject = "none"
    /\ subject' = "ChainMap+LockedChainMap"
    /\ chainMap' = <<HashMap_new>>
    /\ locked' = <<HashMap_new>>
    /\ last' = Call("default", <<Unit, Unit>>)
    /\ UNCHANGED <<tail, chainSet, panicked>>

Do_Lockstep_default ==
    /\ Lockstep_default
    /\ UNCHANGED hist

\* LockedChainMap::insert computes len() - 1: on a chain without frames a
\* build with overflow checks panics there
Lockstep_insert(key, value, overflow_checks) ==
    /\ InLockstep
    /\ IF LockedChainMap_insert_panics(locked, overflow_checks)
       THEN /\ panicked' = TRUE
            /\ last' = Call("insert", <<Unit, Unit>>)
            /\ UNCHANGED <<subject, chainMap, locked, tail, chainSet>>
       ELSE /\ chainMap' = ChainMap_insert_maps(chainMap, key, value)
            /\ locked' = LockedChainMap_insert_maps(locked, key, value)
            /\ last' = Call("insert",
                            <<ChainMap_insert_ret(chainMap, key, value),
                              LockedChainMap_insert_ret(locked, key, value)>>)
            /\ OnlyLockstep

Do_Lockstep_insert ==
    /\ \E key \in Keys, value \in Vals, overflow_checks \in BOOLEAN :
        Lockstep_insert(key, value, overflow_checks)
    /\ UNCHANGED hist

Lockstep_insert_at(idx, key, value) ==
    /\ InLockstep
    /\ chainMap' = ChainMap_insert_at_maps(chainMap, idx, key, value)
    /\ locked' = LockedChainMap_insert_at_maps(locked, idx, key, value)
    /\ last' = Call("insert_at",
                    <<ChainMap_insert_at_ret(chainMap, idx, key, value),
                      LockedChainMap_insert_at_ret(locked, idx, key, value)>>)
    /\ OnlyLockstep

Do_Lockstep_insert_at ==
    /\ \E idx \in Indices, key \in Keys, value \in Vals :
        Lockstep_insert_at(idx, key, value)
    /\ UNCHANGED hist

Lockstep_new_child ==
    /\ InLockstep
    /\ Len(chainMap) < MaxLen /\ Len(locked) < MaxLen
    /\ chainMap' = ChainMap_new_child_maps(chainMap)
    /\ locked' = LockedChainMap_new_child_maps(locked)
    /\ last' = Call("new_child", <<Unit, Unit>>)
    /\ OnlyLockstep

Do_Lockstep_new_child ==
    /\ Lockstep_new_child
    /\ UNCHANGED hist

Lockstep_new_child_with(map) ==
    /\ InLockstep
    /\ Len(chainMap) < MaxLen /\ Len(locked) < MaxLen
    /\ chainMap' = ChainMap_new_child_with_maps(chainMap, map)
    /\ locked' = LockedChainMap_new_child_with_maps(locked, map)
    /\ last' = Call("new_child_with", <<Unit, Unit>>)
    /\ OnlyLockstep

Do_Lockstep_new_child_with ==
    /\ \E map \in Frames :
        Lockstep_new_child_with(map)
    /\ UNCHANGED hist

Lockstep_remove_child ==
    /\ InLockstep
    /\ chainMap' = ChainMap_remove_child_maps(chainMap)
    /\ locked' = LockedChainMap_remove_child_maps(locked)
    /\ last' = Call("remove_child",
                    <<ChainMap_remove_child_ret(chainMap),
                      LockedChainMap_remove_child_ret(locked)>>)
    /\ OnlyLockstep

Do_Lockstep_remove_child ==
    /\ Lockstep_remove_child
    /\ UNCHANGED hist

NextLockstep ==
    \/ Do_Lockstep_new
    \/ Do_Lockstep_default
    \/ Do_Lockstep_insert
    \/ Do_Lockstep_insert_at
    \/ Do_Lockstep_new_child
    \/ Do_Lockstep_new_child_with
    \/ Do_Lockstep_remove_child

SpecLockstep == Init /\ [][NextLockstep]_vars

\* ------------------------------------------------------------------------
\* The driver of the reads: it builds a ChainMap or a LockedChainMap frame by
\* frame, may split the LockedChainMap, and reads with Index and last_has
\* ------------------------------------------------------------------------

NextReads ==
    \/ Do_ChainMap_new
    \/ Do_ChainMap_default
    \/ Do_ChainMap_new_child_with
    \/ Do_ChainMap_remove_child
    \/ Do_ChainMap_index_read
    \/ Do_ChainMap_last_has_read
    \/ Do_LockedChainMap_new
    \/ Do_LockedChainMap_default
    \/ Do_LockedChainMap_new_child_with
    \/ Do_LockedChainMap_remove_child
    \/ Do_LockedChainMap_split_off
    \/ Do_LockedChainMap_index_read
    \/ Do_LockedChainMap_last_has_read

SpecReads == Init /\ [][NextReads]_vars

\* ------------------------------------------------------------------------
\* Comparing chains with ==: the driver builds a chain frame by frame and
\* compares it with another chain of at most MaxOtherLen frames
\* ------------------------------------------------------------------------

\* the chains of at most n frames
Chains(n) == UNION {[1..m -> Frames] : m \in 0..n}

ChainMap_eq_read(other) ==
    /\ Running("ChainMap")
    /\ last' = Call("eq", ChainMap_eq(chainMap, other))
    /\ UNCHANGED <<subject, chainMap, locked, tail, chainSet, panicked>>

Do_ChainMap_eq_read ==
    /\ \E other \in Chains(MaxOtherLen) :
        ChainMap_eq_read(other)
    /\ UNCHANGED hist

LockedChainMap_eq_read(other) ==
    /\ Running("LockedChainMap")
    /\ last' = Call("eq", LockedChainMap_eq(locked, other))
    /\ UNCHANGED <<subject, chainMap, locked, tail, chainSet, panicked>>

Do_LockedChainMap_eq_read ==
    /\ \E other \in Chains(MaxOtherLen) :
        LockedChainMap_eq_read(other)
    /\ UNCHANGED hist

NextEq ==
    \/ Do_ChainMap_new
    \/ Do_ChainMap_default
    \/ Do_ChainMap_new_child_with
    \/ Do_ChainMap_eq_read
    \/ Do_LockedChainMap_new
    \/ Do_LockedChainMap_default
    \/ Do_LockedChainMap_new_child_with
    \/ Do_LockedChainMap_eq_read

SpecEq == Init /\ [][NextEq]_vars

\* ------------------------------------------------------------------------
\* What the claims say, stated without the loops of the code
\* ------------------------------------------------------------------------

\* the (1-based) positions among the first n frames whose frame binds key
Binding(maps, n, key) == {i \in 1..n : key \in DOMAIN maps[i]}

Highest(S) == CHOOSE m \in S : \A i \in S : i <= m

\* the value key has in the highest-indexed of the first n frames binding it
HighestValue(maps, n, key) ==
    IF Binding(maps, n, key) = {} THEN None
    ELSE Some(maps[Highest(Binding(maps, n, key))][key])

\* the 0-based index of that frame
HighestFrame(maps, n, key) ==
    IF Binding(maps, n, key) = {} THEN None
    ELSE Some(Highest(Binding(maps, n, key)) - 1)

Min(a, b) == IF a <= b THEN a ELSE b

\* C1: in every reachable ChainMap and LockedChainMap, for every key, get
\* returns the value of the key in the highest-indexed frame that binds it,
\* and None exactly when no frame binds it.
C1_GetReturnsHighestBinding ==
    /\ subject = "ChainMap" =>
         \A key \in Keys :
            ChainMap_get(chainMap, key) = HighestValue(chainMap, Len(chainMap), key)
    /\ subject = "LockedChainMap" =>
         \A key \in Keys :
            LockedChainMap_get(locked, key) = HighestValue(locked, Len(locked), key)

\* a ChainMap of three frames in which the leaf does not bind x and the two
\* older frames bind it to different values: get must skip the leaf and
\* return the middle frame's value
C1_Witness ==
    /\ subject = "ChainMap"
    /\ Len(chainMap) = 3
    /\ "x" \notin DOMAIN chainMap[3]
    /\ "x" \in DOMAIN chainMap[2] /\ chainMap[2]["x"] = 2
    /\ "x" \in DOMAIN chainMap[1] /\ chainMap[1]["x"] = 1
    /\ ChainMap_get(chainMap, "x") = Some(2)

\* C2: from new() or default(), after any sequence of new_child,
\* new_child_with, remove_child, insert and insert_at calls, child_len() >= 1,
\* for ChainMap, LockedChainMap and ChainSet.
C2_ChildLenAtLeastOne ==
    /\ subject = "ChainMap" => ChainMap_child_len(chainMap) >= 1
    /\ subject = "LockedChainMap" => LockedChainMap_child_len(locked) >= 1
    /\ subject = "ChainSet" => Len(chainSet) >= 1

\* remove_child has just been called on a LockedChainMap and one frame is left
C2_Witness ==
    /\ subject = "LockedChainMap"
    /\ last.op = "remove_child"
    /\ LockedChainMap_child_len(locked) = 1

\* the child_len() of the chain the driver has constructed
SubjectLen ==
    IF subject = "ChainMap" THEN ChainMap_child_len(chainMap)
    ELSE IF subject = "LockedChainMap" THEN LockedChainMap_child_len(locked)
    ELSE Len(chainSet)

\* C3 as stated: for every sequence of new_child/remove_child calls from a
\* chain of length 1, after n pushes and m <= n pops child_len() = 1 + n - m.
C3_Original ==
    (subject # "none" /\ hist.pops <= hist.pushes) =>
        SubjectLen = 1 + hist.pushes - hist.pops

\* C3 amended: for every sequence of new_child/remove_child calls from a chain
\* of length 1 in which remove_child is never called while child_len() = 1,
\* after n pushes and m pops, m <= n and child_len() = 1 + n - m.
C3_LenIsOnePlusPushesMinusPops ==
    (subject # "none" /\ ~hist.poppedAtOne) =>
        /\ hist.pops <= hist.pushes
        /\ SubjectLen = 1 + hist.pushes - hist.pops

\* three pushes and two pops, none of them at length 1, on a ChainMap
C3_Witness ==
    /\ subject = "ChainMap"
    /\ hist.pushes = 3
    /\ hist.pops = 2
    /\ ~hist.poppedAtOne
    /\ ChainMap_child_len(chainMap) = 2

\* C4: remove_child on a chain of length 1 leaves child_len() at 1, returns
\* Some(the contents the frame had before the call) and leaves that frame
\* empty, for ChainMap, LockedChainMap and ChainSet; repeating the call keeps
\* the chain at one empty frame.
C4_RemoveChildAtOneClears ==
    /\ (subject = "ChainMap" /\ Len(chainMap) = 1) =>
          /\ ChainMap_remove_child_ret(chainMap) = Some(chainMap[1])
          /\ Len(ChainMap_remove_child_maps(chainMap)) = 1
          /\ DOMAIN ChainMap_remove_child_maps(chainMap)[1] = {}
          /\ ChainMap_remove_child_maps(ChainMap_remove_child_maps(chainMap))
                = ChainMap_remove_child_maps(chainMap)
    /\ (subject = "LockedChainMap" /\ Len(locked) = 1) =>
          /\ LockedChainMap_remove_child_ret(locked) = Some(locked[1])
          /\ Len(LockedChainMap_remove_child_maps(locked)) = 1
          /\ DOMAIN LockedChainMap_remove_child_maps(locked)[1] = {}
          /\ LockedChainMap_remove_child_maps(LockedChainMap_remove_child_maps(locked))
                = LockedChainMap_remove_child_maps(locked)
    /\ (subject = "ChainSet" /\ Len(chainSet) = 1) =>
          /\ ChainSet_remove_child_ret(chainSet) = Some(chainSet[1])
          /\ Len(ChainSet_remove_child_sets(chainSet)) = 1
          /\ ChainSet_remove_child_sets(chainSet)[1] = {}
          /\ ChainSet_remove_child_sets(ChainSet_remove_child_sets(chainSet))
                = ChainSet_remove_child_sets(chainSet)

\* remove_child on a ChainSet has returned a frame holding x and y and has
\* left a single empty frame
C4_Witness ==
    /\ subject = "ChainSet"
    /\ last.op = "remove_child"
    /\ last.ret = Some({"x", "y"})
    /\ chainSet = << {} >>

\* before and after agree on every frame but (1-based) frame n
SameButFrame(chainBefore, chainAfter, n) ==
    /\ Len(chainAfter) = Len(chainBefore)
    /\ \A i \in 1..Len(chainBefore) : i # n => chainAfter[i] = chainBefore[i]

\* what the frame binds key to: Some(value) or None
BindingOf(frame, key) == IF key \in DOMAIN frame THEN Some(frame[key]) ELSE None

\* the effect of a write of key |-> value into (1-based) frame n that returned
\* prev: prev is what frame n bound key to, frame n now binds key to value,
\* no other frame changed
WroteInto(chainBefore, chainAfter, n, key, value, prev) ==
    /\ prev = BindingOf(chainBefore[n], key)
    /\ SameButFrame(chainBefore, chainAfter, n)
    /\ BindingOf(chainAfter[n], key) = Some(value)

C6_InsertAtOutOfRangeFails ==
    /\ subject = "ChainMap" =>
          \A idx \in Indices, key \in Keys, value \in Vals :
              idx >= Len(chainMap) =>
                  /\ ChainMap_insert_at_ret(chainMap, idx, key, value)
                        = Err(IndexOutOfRange)
                  /\ ChainMap_insert_at_maps(chainMap, idx, key, value) = chainMap
    /\ subject = "LockedChainMap" =>
          \A idx \in Indices, key \in Keys, value \in Vals :
              idx >= Len(locked) =>
                  /\ LockedChainMap_insert_at_ret(locked, idx, key, value)
                        = Err(IndexOutOfRange)
                  /\ LockedChainMap_insert_at_maps(locked, idx, key, value) = locked

\* insert_at has failed on a LockedChainMap of length 1
C6_Witness ==
    /\ subject = "LockedChainMap"
    /\ last.op = "insert_at"
    /\ last.ret = Err(IndexOutOfRange)
    /\ Len(locked) = 1
    /\ DOMAIN locked[1] = {"x"}

\* C7: insert_at(index, k, v) with index < child_len() returns Ok(what frame
\* index bound k to), binds k to v in frame index, and leaves every other
\* frame and child_len() unchanged; in ChainMap and LockedChainMap.
C7_InsertAtWritesFrame ==
    /\ subject = "ChainMap" =>
          \A idx \in Indices, key \in Keys, value \in Vals :
              idx < Len(chainMap) =>
                  /\ ChainMap_insert_at_ret(chainMap, idx, key, value)[1] = "Ok"
                  /\ WroteInto(chainMap,
                               ChainMap_insert_at_maps(chainMap, idx, key, value),
                               idx + 1, key, value,
                               ChainMap_insert_at_ret(chainMap, idx, key, value)[2])
    /\ subject = "LockedChainMap" =>
          \A idx \in Indices, key \in Keys, value \in Vals :
              idx < Len(locked) =>
                  /\ LockedChainMap_insert_at_ret(locked, idx, key, value)[1] = "Ok"
                  /\ WroteInto(locked,
                               LockedChainMap_insert_at_maps(locked, idx, key, value),
                               idx + 1, key, value,
                               LockedChainMap_insert_at_ret(locked, idx, key, value)[2])

\* insert_at on a ChainMap of two frames has returned Ok(Some(1)) while the
\* leaf is empty: it overwrote the binding of x in frame 0
C7_Witness ==
    /\ subject = "ChainMap"
    /\ last.op = "insert_at"
    /\ last.ret = Ok(Some(1))
    /\ Len(chainMap) = 2
    /\ DOMAIN chainMap[2] = {}
    /\ DOMAIN chainMap[1] = {"x"}
    /\ chainMap[1]["x"] = 2

\* C8: get_before(index, k) returns the binding of k in the highest-indexed
\* frame among frames [0, index), None if none of them binds k; when
\* index >= child_len() the whole chain is searched; in ChainMap and
\* LockedChainMap.
C8_GetBeforeSearchesWindow ==
    /\ subject = "ChainMap" =>
         \A idx \in Indices, key \in Keys :
            ChainMap_get_before(chainMap, idx, key)
                = HighestValue(chainMap, Min(idx, Len(chainMap)), key)
    /\ subject = "LockedChainMap" =>
         \A idx \in Indices, key \in Keys :
            LockedChainMap_get_before(locked, idx, key)
                = HighestValue(locked, Min(idx, Len(locked)), key)

\* a LockedChainMap whose three frames all bind x: get_before(1) reads frame
\* 0, get_before(2) reads frame 1 and not the leaf, get_before(3) reads the
\* leaf
C8_Witness ==
    /\ subject = "LockedChainMap"
    /\ Len(locked) = 3
    /\ BindingOf(locked[1], "x") = Some(1)
    /\ BindingOf(locked[2], "x") = Some(2)
    /\ BindingOf(locked[3], "x") = Some(1)
    /\ LockedChainMap_get_before(locked, 0, "x") = None
    /\ LockedChainMap_get_before(locked, 1, "x") = Some(1)
    /\ LockedChainMap_get_before(locked, 2, "x") = Some(2)
    /\ LockedChainMap_get_before(locked, 3, "x") = Some(1)

\* C9: get_before_mut(index, k) addresses the binding get_before(index, k)
\* returns: the handle is for the highest-indexed frame among [0, index) that
\* binds k (the whole chain when index >= child_len()), or None; in ChainMap
\* and LockedChainMap.
C9_GetBeforeMutSearchesWindow ==
    /\ subject = "ChainMap" =>
         \A idx \in Indices, key \in Keys :
            ChainMap_get_before_mut(chainMap, idx, key)
                = HighestFrame(chainMap, Min(idx, Len(chainMap)), key)
    /\ subject = "LockedChainMap" =>
         \A idx \in Indices, key \in Keys :
            LockedChainMap_get_before_mut(locked, idx, key)
                = HighestFrame(locked, Min(idx, Len(locked)), key)

\* the effect of get_mut(key) followed by a write of value through the handle,
\* where got is what get(key) reads afterwards: the handle is for the
\* highest-indexed frame binding key; with no handle the chain is unchanged,
\* otherwise only that binding changed and got is Some(value)
WroteThroughGetMut(chainBefore, chainAfter, handle, key, value, got) ==
    /\ handle = HighestFrame(chainBefore, Len(chainBefore), key)
    /\ handle = None => chainAfter = chainBefore
    /\ handle # None =>
         /\ Len(chainAfter) = Len(chainBefore)
         /\ \A i \in 1..Len(chainBefore) :
              /\ DOMAIN chainAfter[i] = DOMAIN chainBefore[i]
              /\ \A q \in DOMAIN chainBefore[i] :
                   chainAfter[i][q] =
                       IF i = Unwrap(handle) + 1 /\ q = key
                       THEN value ELSE chainBefore[i][q]
         /\ got = Some(value)

\* C10: in ChainMap (map.rs) and LockedChainMap, get_mut(k) yields a handle to
\* the binding of k in the highest-indexed frame binding k, leaf or not;
\* writing through it changes only that binding, and get(k) then returns the
\* value written.
C10_GetMutWritesHighestBinding ==
    /\ subject = "ChainMap" =>
          \A key \in Keys, value \in Vals :
              WroteThroughGetMut(chainMap,
                  WriteThrough(chainMap, ChainMap_get_mut(chainMap, key), key, value),
                  ChainMap_get_mut(chainMap, key), key, value,
                  ChainMap_get(
                      WriteThrough(chainMap, ChainMap_get_mut(chainMap, key), key, value),
                      key))
    /\ subject = "LockedChainMap" =>
          \A key \in Keys, value \in Vals :
              WroteThroughGetMut(locked,
                  WriteThrough(locked, LockedChainMap_get_mut(locked, key), key, value),
                  LockedChainMap_get_mut(locked, key), key, value,
                  LockedChainMap_get(
                      WriteThrough(locked, LockedChainMap_get_mut(locked, key), key, value),
                      key))

\* get_mut on a LockedChainMap has returned a handle into frame 0 although the
\* chain has a leaf above it that binds only y
C10_Witness ==
    /\ subject = "LockedChainMap"
    /\ last.op = "get_mut"
    /\ last.ret = Some(0)
    /\ Len(locked) = 2
    /\ DOMAIN locked[2] = {"y"}
    /\ DOMAIN locked[1] = {"x"}

\* C11: in the ChainMap of lib.rs, get_mut(k) scans the frames from leaf to
\* root, so get_mut(k) is Some whenever get(k) is Some, also when k is bound
\* only in a frame that is not the leaf.
C11_LibGetMutSomeWheneverGetSome ==
    subject = "lib::ChainMap" =>
        \A key \in Keys :
            IsSome(Lib_ChainMap_get(chainMap, key))
                => IsSome(Lib_ChainMap_get_mut(chainMap, key))

\* the frames (0-based indices) from lo to hi that bind key
BoundIn(maps, lo, hi, key) ==
    {f \in lo..hi : f + 1 \in 1..Len(maps) /\ key \in DOMAIN maps[f + 1]}

\* C12 as stated: for every chain, after insert_at(i, k, v) and
\* insert_at(j, k, v2) with i < j, both in range, get(k) = Some(v2),
\* get_before(j, k) = Some(v) and get_before(i, k) = None.
C12_Original ==
    /\ subject = "ChainMap" =>
         \A i, j \in 0..(Len(chainMap) - 1), key \in Keys, v, v2 \in Vals :
            j > i =>
                LET after == ChainMap_insert_at_maps(
                                 ChainMap_insert_at_maps(chainMap, i, key, v),
                                 j, key, v2)
                IN  /\ ChainMap_get(after, key) = Some(v2)
                    /\ ChainMap_get_before(after, j, key) = Some(v)
                    /\ ChainMap_get_before(after, i, key) = None
    /\ subject = "LockedChainMap" =>
         \A i, j \in 0..(Len(locked) - 1), key \in Keys, v, v2 \in Vals :
            j > i =>
                LET after == LockedChainMap_insert_at_maps(
                                 LockedChainMap_insert_at_maps(locked, i, key, v),
                                 j, key, v2)
                IN  /\ LockedChainMap_get(after, key) = Some(v2)
                    /\ LockedChainMap_get_before(after, j, key) = Some(v)
                    /\ LockedChainMap_get_before(after, i, key) = None

\* C12: for every chain, after insert_at(i, k, v) and insert_at(j, k, v2) with
\* i < j, both in range, both calls having succeeded: get(k) = Some(v2) if no
\* frame above j binds k, get_before(j, k) = Some(v) if no frame strictly
\* between i and j binds k, and get_before(i, k) = None if no frame below i
\* binds k; in ChainMap and LockedChainMap.
C12_InsertAtTwiceThenReads ==
    /\ subject = "ChainMap" =>
         \A i, j \in 0..(Len(chainMap) - 1), key \in Keys, v, v2 \in Vals :
            j > i =>
                LET mid == ChainMap_insert_at_maps(chainMap, i, key, v)
                    after == ChainMap_insert_at_maps(mid, j, key, v2)
                IN  /\ ChainMap_insert_at_ret(chainMap, i, key, v)[1] = "Ok"
                    /\ ChainMap_insert_at_ret(mid, j, key, v2)[1] = "Ok"
                    /\ BoundIn(chainMap, j + 1, Len(chainMap) - 1, key) = {}
                          => ChainMap_get(after, key) = Some(v2)
                    /\ BoundIn(chainMap, i + 1, j - 1, key) = {}
                          => ChainMap_get_before(after, j, key) = Some(v)
                    /\ BoundIn(chainMap, 0, i - 1, key) = {}
                          => ChainMap_get_before(after, i, key) = None
    /\ subject = "LockedChainMap" =>
         \A i, j \in 0..(Len(locked) - 1), key \in Keys, v, v2 \in Vals :
            j > i =>
                LET mid == LockedChainMap_insert_at_maps(locked, i, key, v)
                    after == LockedChainMap_insert_at_maps(mid, j, key, v2)
                IN  /\ LockedChainMap_insert_at_ret(locked, i, key, v)[1] = "Ok"
                    /\ LockedChainMap_insert_at_ret(mid, j, key, v2)[1] = "Ok"
                    /\ BoundIn(locked, j + 1, Len(locked) - 1, key) = {}
                          => LockedChainMap_get(after, key) = Some(v2)
                    /\ BoundIn(locked, i + 1, j - 1, key) = {}
                          => LockedChainMap_get_before(after, j, key) = Some(v)
                    /\ BoundIn(locked, 0, i - 1, key) = {}
                          => LockedChainMap_get_before(after, i, key) = None

\* insert_at(0, "x", 1) and then insert_at(2, "x", 2) have been called on a
\* ChainMap of three frames none of which bound x: the second call has just
\* returned Ok(None), and the three reads are as the claim says
C12_Witness ==
    /\ subject = "ChainMap"
    /\ last.op = "insert_at"
    /\ last.ret = Ok(None)
    /\ Len(chainMap) = 3
    /\ BindingOf(chainMap[1], "x") = Some(1)
    /\ BindingOf(chainMap[2], "x") = None
    /\ BindingOf(chainMap[3], "x") = Some(2)
    /\ ChainMap_get(chainMap, "x") = Some(2)
    /\ ChainMap_get_before(chainMap, 2, "x") = Some(1)
    /\ ChainMap_get_before(chainMap, 0, "x") = None

\* C14: for a LockedChainMap with frames F[0..len) and every i with
\* 0 <= i <= len, split_off(i) leaves in the original exactly the frames
\* F[0..i), in order, and returns a chain of exactly the frames F[i..len), in
\* order, every frame with its contents unchanged.
C14_SplitOffDividesAtIndex ==
    subject = "LockedChainMap" =>
        \A idx \in 0..Len(locked) :
            LET kept == LockedChainMap_split_off_self(locked, idx)
                ret == LockedChainMap_split_off_ret(locked, idx)
            IN  /\ Len(kept) = idx
                /\ \A f \in 1..idx : kept[f] = locked[f]
                /\ Len(ret) = Len(locked) - idx
                /\ \A f \in 1..(Len(locked) - idx) : ret[f] = locked[idx + f]

\* split_off(1) has just been called on a chain of three different frames:
\* frame 0 stayed, frames 1 and 2 are in the chain returned
C14_Witness ==
    /\ subject = "LockedChainMap"
    /\ last.op = "split_off"
    /\ ~panicked
    /\ Len(locked) = 1
    /\ BindingOf(locked[1], "x") = Some(1) /\ BindingOf(locked[1], "y") = None
    /\ IsSome(tail)
    /\ Len(Unwrap(tail)) = 2
    /\ DOMAIN Unwrap(tail)[1] = {"y"}
    /\ DOMAIN Unwrap(tail)[2] = {"x", "y"}

\* C15: for every LockedChainMap and every i with 0 <= i <= child_len(),
\* after split_off(i) the original chain and the chain returned both have
\* child_len() >= 1.
C15_SplitOffKeepsAFrameInBoth ==
    subject = "LockedChainMap" =>
        \A idx \in 0..Len(locked) :
            /\ LockedChainMap_child_len(
                   LockedChainMap_split_off_self(locked, idx)) >= 1
            /\ LockedChainMap_child_len(
                   LockedChainMap_split_off_ret(locked, idx)) >= 1

\* C16: for every LockedChainMap C and every i with 0 <= i <= child_len(),
\* t = C.split_off(i) followed by C.append(t) leaves C equal (==) to what it
\* was before the split.
C16_SplitOffThenAppendRestores ==
    subject = "LockedChainMap" =>
        \A idx \in 0..Len(locked) :
            LockedChainMap_eq(
                LockedChainMap_append_maps(
                    LockedChainMap_split_off_self(locked, idx),
                    LockedChainMap_split_off_ret(locked, idx)),
                locked)

\* the chain split_off returned has just been appended back, and the chain has
\* its three different frames in the order x, y, x-and-y
C16_Witness ==
    /\ subject = "LockedChainMap"
    /\ last.op = "append"
    /\ tail = None
    /\ Len(locked) = 3
    /\ DOMAIN locked[1] = {"x"}
    /\ DOMAIN locked[2] = {"y"}
    /\ DOMAIN locked[3] = {"x", "y"}

C18_ObservationallyEquivalent ==
    subject = "ChainMap+LockedChainMap" =>
        /\ last.ret[1] = last.ret[2]
        /\ ChainMap_child_len(chainMap) = LockedChainMap_child_len(locked)
        /\ \A key \in Keys :
            /\ ChainMap_get(chainMap, key) = LockedChainMap_get(locked, key)
            /\ ChainMap_last_has(chainMap, key)
                  = LockedChainMap_last_has(locked, key)
            /\ ChainMap_get_last_index(chainMap, key)
                  = LockedChainMap_get_last_index(locked, key)
            /\ \A idx \in Indices :
                /\ ChainMap_get_before(chainMap, idx, key)
                      = LockedChainMap_get_before(locked, idx, key)
                /\ ChainMap_has_at(chainMap, idx, key)
                      = LockedChainMap_has_at(locked, idx, key)

\* both chains have had remove_child called at length 1, where ChainMap and
\* LockedChainMap take the frame instead of popping it: both returned the
\* frame binding x and both are left with one empty frame
C18_Witness ==
    /\ subject = "ChainMap+LockedChainMap"
    /\ last.op = "remove_child"
    /\ last.ret = <<Some([k \in {"x"} |-> 1]), Some([k \in {"x"} |-> 1])>>
    /\ chainMap = <<HashMap_new>>
    /\ locked = <<HashMap_new>>

\* C19 as stated: ChainSet::insert(value) returns true iff value was in no
\* frame of the chain, leaf or ancestor; when value is in an ancestor frame it
\* returns false and does not add value to the leaf frame.
C19_Original ==
    subject = "ChainSet" =>
        \A value \in Keys :
            /\ ChainSet_insert_ret(chainSet, value)
                  = (\A f \in 1..Len(chainSet) : value \notin chainSet[f])
            /\ (\E f \in 1..(Len(chainSet) - 1) : value \in chainSet[f]) =>
                  /\ ChainSet_insert_ret(chainSet, value) = FALSE
                  /\ ChainSet_insert_sets(chainSet, value) = chainSet

\* C19: on a ChainSet that has a leaf frame, insert(value) returns true iff
\* value was not in the leaf frame, whatever the ancestor frames hold; it
\* adds value to the leaf frame and leaves the other frames as they were, so
\* get(value) finds it afterwards.
C19_InsertReportsLeafOnly ==
    (subject = "ChainSet" /\ Len(chainSet) >= 1) =>
        \A value \in Keys :
            LET after == ChainSet_insert_sets(chainSet, value)
                leaf == Len(chainSet)
            IN  /\ ChainSet_insert_ret(chainSet, value)
                      = (value \notin chainSet[leaf])
                /\ Len(after) = leaf
                /\ after[leaf] = chainSet[leaf] \cup {value}
                /\ \A f \in 1..(leaf - 1) : after[f] = chainSet[f]
                /\ ChainSet_get(after, value) = Some(value)

\* insert("x") has just returned true in a child frame although the frame
\* below already held x: x is now in both frames
C19_Witness ==
    /\ subject = "ChainSet"
    /\ last.op = "insert"
    /\ last.ret = TRUE
    /\ Len(chainSet) = 2
    /\ chainSet[1] = {"x", "y"}
    /\ chainSet[2] = {"x"}

C21_HasAtReadsOneFrame ==
    /\ subject = "ChainMap" =>
         \A key \in Keys :
            /\ \A idx \in Indices :
                  ChainMap_has_at(chainMap, idx, key)
                      <=> (/\ idx < ChainMap_child_len(chainMap)
                           /\ key \in DOMAIN chainMap[idx + 1])
            /\ ChainMap_last_has(chainMap, key)
                  = ChainMap_has_at(chainMap, ChainMap_child_len(chainMap) - 1, key)
            /\ ChainMap_last_has(chainMap, key)
                  <=> (/\ Len(chainMap) >= 1
                       /\ key \in DOMAIN chainMap[Len(chainMap)])
            /\ \A overflow_checks \in BOOLEAN :
                  ChainMap_last_has_panics(chainMap, overflow_checks)
                      <=> (ChainMap_child_len(chainMap) - 1 < 0 /\ overflow_checks)
    /\ subject = "LockedChainMap" =>
         \A key \in Keys :
            /\ \A idx \in Indices :
                  LockedChainMap_has_at(locked, idx, key)
                      <=> (/\ idx < LockedChainMap_child_len(locked)
                           /\ key \in DOMAIN locked[idx + 1])
            /\ LockedChainMap_last_has(locked, key)
                  = LockedChainMap_has_at(locked,
                        LockedChainMap_child_len(locked) - 1, key)
            /\ LockedChainMap_last_has(locked, key)
                  <=> (/\ Len(locked) >= 1
                       /\ key \in DOMAIN locked[Len(locked)])
            /\ \A overflow_checks \in BOOLEAN :
                  LockedChainMap_last_has_panics(locked, overflow_checks)
                      <=> (LockedChainMap_child_len(locked) - 1 < 0
                           /\ overflow_checks)

\* last_has has just returned false on a ChainMap whose root binds x and whose
\* leaf binds only y: the key asked for was x, which get finds in the root
C21_Witness ==
    /\ subject = "ChainMap"
    /\ last.op = "last_has"
    /\ last.ret = FALSE
    /\ Len(chainMap) = 2
    /\ DOMAIN chainMap[1] = {"x"}
    /\ DOMAIN chainMap[2] = {"y"}
    /\ ~ChainMap_has_at(chainMap, 1, "x")
    /\ ChainMap_has_at(chainMap, 0, "x")
    /\ ~ChainMap_has_at(chainMap, 2, "x")
    /\ IsSome(ChainMap_get(chainMap, "x"))

\* C22: on every reachable ChainMap and LockedChainMap, get_last_index(k) is
\* Some(i) for the highest frame index i whose frame binds k and None iff no
\* frame binds k; so get(k) is Some exactly when get_last_index(k) is, and
\* get(k) is the binding of k in frame get_last_index(k).
C22_GetLastIndexIsHighestBindingFrame ==
    /\ subject = "ChainMap" =>
         \A key \in Keys :
            LET found == ChainMap_get_last_index(chainMap, key)
            IN  /\ found = HighestFrame(chainMap, Len(chainMap), key)
                /\ found = None <=> Binding(chainMap, Len(chainMap), key) = {}
                /\ IsSome(ChainMap_get(chainMap, key)) <=> IsSome(found)
                /\ IsSome(found) =>
                      ChainMap_get(chainMap, key)
                          = BindingOf(chainMap[Unwrap(found) + 1], key)
    /\ subject = "LockedChainMap" =>
         \A key \in Keys :
            LET found == LockedChainMap_get_last_index(locked, key)
            IN  /\ found = HighestFrame(locked, Len(locked), key)
                /\ found = None <=> Binding(locked, Len(locked), key) = {}
                /\ IsSome(LockedChainMap_get(locked, key)) <=> IsSome(found)
                /\ IsSome(found) =>
                      LockedChainMap_get(locked, key)
                          = BindingOf(locked[Unwrap(found) + 1], key)

\* a LockedChainMap of three frames: x is bound in frames 0 and 1 and not in
\* the leaf, y nowhere; get_last_index("x") is Some(1), get("x") is frame 1's
\* value, and get_last_index("y") is None
C22_Witness ==
    /\ subject = "LockedChainMap"
    /\ Len(locked) = 3
    /\ BindingOf(locked[1], "x") = Some(2)
    /\ BindingOf(locked[2], "x") = Some(1)
    /\ locked[3] = HashMap_new
    /\ LockedChainMap_get_last_index(locked, "x") = Some(1)
    /\ LockedChainMap_get(locked, "x") = Some(1)
    /\ LockedChainMap_get_last_index(locked, "y") = None

\* the merged lookup view of two chains is the same: get agrees on every key
SameView(a, b) == \A key \in Keys : ChainMap_get(a, key) = ChainMap_get(b, key)

\* frame by frame equality of two chains
SameFrames(a, b) ==
    /\ Len(a) = Len(b)
    /\ \A f \in 1..Len(a) :
          /\ DOMAIN a[f] = DOMAIN b[f]
          /\ \A key \in DOMAIN a[f] : a[f][key] = b[f][key]

\* C23: two chains compare equal iff they have the same number of frames and
\* frame i of one equals frame i of the other for every i; two chains with the
\* same merged lookup view whose frames differ (in number or in contents) are
\* not equal; for ChainMap and LockedChainMap.
C23_EqComparesFrameByFrame ==
    /\ subject = "ChainMap" =>
         \A other \in Chains(MaxOtherLen) :
            /\ ChainMap_eq(chainMap, other) <=> SameFrames(chainMap, other)
            /\ (SameView(chainMap, other) /\ ~SameFrames(chainMap, other))
                  => ~ChainMap_eq(chainMap, other)
    /\ subject = "LockedChainMap" =>
         \A other \in Chains(MaxOtherLen) :
            /\ LockedChainMap_eq(locked, other) <=> SameFrames(locked, other)
            /\ (SameView(locked, other) /\ ~SameFrames(locked, other))
                  => ~LockedChainMap_eq(locked, other)

\* a ChainMap binding x in frame 0 and y in frame 1 has just been compared
\* with a chain and found different; the one-frame chain binding both has the
\* same merged view and is not equal to it, the chain with the same two frames
\* is
C23_Witness ==
    /\ subject = "ChainMap"
    /\ last.op = "eq"
    /\ last.ret = FALSE
    /\ Len(chainMap) = 2
    /\ BindingOf(chainMap[1], "x") = Some(1) /\ BindingOf(chainMap[1], "y") = None
    /\ BindingOf(chainMap[2], "y") = Some(1) /\ BindingOf(chainMap[2], "x") = None
    /\ SameView(chainMap, <<[k \in {"x", "y"} |-> 1]>>)
    /\ ~ChainMap_eq(chainMap, <<[k \in {"x", "y"} |-> 1]>>)
    /\ ChainMap_eq(chainMap, <<[k \in {"x"} |-> 1], [k \in {"y"} |-> 1]>>)

\* C24: ChainSet::get(value) returns Some(value) iff value is a member of at
\* least one frame of the chain and None otherwise; a value held by a frame
\* is still found after a child is pushed, and a value held by a frame below
\* the leaf is still found after the leaf is removed, whether or not the leaf
\* held it too.
C24_SetGetFindsMemberOfAnyFrame ==
    subject = "ChainSet" =>
        \A value \in Keys :
            /\ ChainSet_get(chainSet, value)
                  = IF \E f \in 1..Len(chainSet) : value \in chainSet[f]
                    THEN Some(value) ELSE None
            /\ (\E f \in 1..Len(chainSet) : value \in chainSet[f]) =>
                  /\ ChainSet_get(ChainSet_new_child_sets(chainSet), value)
                        = Some(value)
                  /\ \A set \in SetFrames :
                        ChainSet_get(ChainSet_new_child_with_sets(chainSet, set),
                                     value) = Some(value)
            /\ (\E f \in 1..(Len(chainSet) - 1) : value \in chainSet[f]) =>
                  ChainSet_get(ChainSet_remove_child_sets(chainSet), value)
                      = Some(value)

\* remove_child has just returned a child frame that held x; the frame below
\* holds x too, and get still finds it
C24_Witness ==
    /\ subject = "ChainSet"
    /\ last.op = "remove_child"
    /\ last.ret = Some({"x"})
    /\ chainSet = <<{"x", "y"}>>
    /\ ChainSet_get(chainSet, "x") = Some("x")

\* the sequences of at most MaxInserts insert(key, value) calls
InsertCalls == UNION {[1..n -> Keys \X Vals] : n \in 0..MaxInserts}

\* the chain after the first n of the insert calls, for ChainMap and for
\* LockedChainMap
RECURSIVE ChainMap_after_inserts(_, _, _)
ChainMap_after_inserts(maps, calls, n) ==
    IF n = 0 THEN maps
    ELSE ChainMap_insert_maps(ChainMap_after_inserts(maps, calls, n - 1),
                              calls[n][1], calls[n][2])

RECURSIVE LockedChainMap_after_inserts(_, _, _)
LockedChainMap_after_inserts(maps, calls, n) ==
    IF n = 0 THEN maps
    ELSE LockedChainMap_insert_maps(
             LockedChainMap_after_inserts(maps, calls, n - 1),
             calls[n][1], calls[n][2])

\* the bindings the first n insert calls leave in a frame that was empty
RECURSIVE Inserted(_, _)
Inserted(calls, n) ==
    IF n = 0 THEN HashMap_new
    ELSE HashMap_insert_map(Inserted(calls, n - 1), calls[n][1], calls[n][2])

\* C25: for every reachable ChainMap and LockedChainMap, new_child() followed
\* by any number of insert calls followed by remove_child() returns exactly
\* the bindings inserted and leaves the chain equal to the one before
\* new_child: same frames, same lookups, same child_len().
C25_ScopeRoundTrip ==
    /\ subject = "ChainMap" =>
         \A calls \in InsertCalls :
            LET scope == ChainMap_after_inserts(
                             ChainMap_new_child_maps(chainMap), calls, Len(calls))
                after == ChainMap_remove_child_maps(scope)
            IN  /\ ChainMap_remove_child_ret(scope)
                      = Some(Inserted(calls, Len(calls)))
                /\ ChainMap_eq(after, chainMap)
                /\ ChainMap_child_len(after) = ChainMap_child_len(chainMap)
                /\ \A key \in Keys :
                      ChainMap_get(after, key) = ChainMap_get(chainMap, key)
    /\ (subject = "LockedChainMap" /\ ~panicked) =>
         \A calls \in InsertCalls :
            LET scope == LockedChainMap_after_inserts(
                             LockedChainMap_new_child_maps(locked), calls,
                             Len(calls))
                after == LockedChainMap_remove_child_maps(scope)
            IN  /\ LockedChainMap_remove_child_ret(scope)
                      = Some(Inserted(calls, Len(calls)))
                /\ LockedChainMap_eq(after, locked)
                /\ LockedChainMap_child_len(after)
                      = LockedChainMap_child_len(locked)
                /\ \A key \in Keys :
                      LockedChainMap_get(after, key)
                          = LockedChainMap_get(locked, key)

\* C26: in every reachable LockedChainMap, the chains split_off leaves
\* included, insert(k, v) completes without panicking, and afterwards
\* get(k) = Some(v) and last_has(k) is true.
C26_InsertNeverPanicsAndBinds ==
    (subject = "LockedChainMap" /\ ~panicked) =>
        \A key \in Keys, value \in Vals, overflow_checks \in BOOLEAN :
            LET after == LockedChainMap_insert_maps(locked, key, value)
            IN  /\ ~LockedChainMap_insert_panics(locked, overflow_checks)
                /\ LockedChainMap_get(after, key) = Some(value)
                /\ ~LockedChainMap_last_has_panics(after, overflow_checks)
                /\ LockedChainMap_last_has(after, key)

\* C27: in every reachable ChainMap, LockedChainMap (the chains split_off
\* leaves included) and ChainSet, remove_child returns Some(frame), never
\* None.
C27_RemoveChildReturnsSome ==
    /\ subject = "ChainMap" => IsSome(ChainMap_remove_child_ret(chainMap))
    /\ (subject = "LockedChainMap" /\ ~panicked) =>
          IsSome(LockedChainMap_remove_child_ret(locked))
    /\ subject = "ChainSet" => IsSome(ChainSet_remove_child_ret(chainSet))

====
